---- MODULE Spec2Model ----
(***************************************************************************)
(* GoViet hybrid travel assistant: the retrieval-fusion pipeline of        *)
(* hybrid_chat.py (embedding cache, vector retriever, graph expander,      *)
(* theme filter, prompt assembler, completion client) and the /ask         *)
(* endpoint of app.py.                                                     *)
(*                                                                         *)
(* Python strings are modelled as sequences of one-character strings, so   *)
(* that strip(), lower(), slicing and the substring test `kw in s` are     *)
(* computed as Python computes them.                                       *)
(***************************************************************************)
EXTENDS Integers, Sequences, FiniteSets, TLC

VARIABLES
    EMBEDDING_CACHE,  \* hybrid_chat.EMBEDDING_CACHE: md5 hex digest -> vector
    calls,            \* requests made to the four external services
    hist,             \* SpecEmbed: the embed_text calls made so far, in order
    wk,               \* SpecRace: per worker, its position inside embed_text
    g,                \* the running fetch_graph_context call
    a,                \* the running /ask request
    fl,               \* SpecFilter: one filter_by_theme call
    pr                \* SpecPrompt: one build_prompt call

vars == <<EMBEDDING_CACHE, calls, hist, wk, g, a, fl, pr>>

-----------------------------------------------------------------------------
(* Bounds of the model *)

\* config.PINECONE_VECTOR_DIM (set in config.py), scaled down
VectorDim == 2
\* number of embed_text calls made one after the other in SpecEmbed
MaxCalls == 3
\* number of requests per text the embedding service accepts in SpecRace
MaxEmbedRequests == 2
\* number of workers running embed_text concurrently in SpecRace
NumWorkers == 2
\* longest facts sequence given to filter_by_theme in SpecFilter
MaxFacts == 11
\* longest matches sequence given to build_prompt in SpecPrompt
MaxMatches == 12

-----------------------------------------------------------------------------
(* Python string helpers *)

Min(x, y) == IF x <= y THEN x ELSE y

\* s[:n]
Take(s, n) == SubSeq(s, 1, Min(n, Len(s)))

UpperChars ==
    <<"A", "B", "C", "D", "E", "F", "G", "H", "I", "J", "K", "L", "M", "N",
      "O", "P", "Q", "R", "S", "T", "U", "V", "W", "X", "Y", "Z">>
LowerChars ==
    <<"a", "b", "c", "d", "e", "f", "g", "h", "i", "j", "k", "l", "m", "n",
      "o", "p", "q", "r", "s", "t", "u", "v", "w", "x", "y", "z">>

\* the lower-case letter of each capital
ToLower ==
    [c \in {UpperChars[i] : i \in 1..Len(UpperChars)} |->
        LowerChars[CHOOSE i \in 1..Len(UpperChars) : UpperChars[i] = c]]

LowerChar(c) == IF c \in DOMAIN ToLower THEN ToLower[c] ELSE c

\* str.lower()
Lower(s) == [i \in 1..Len(s) |-> LowerChar(s[i])]

IsSpace(c) == c \in {" ", "\t", "\n"}

\* str.strip()
Strip(s) ==
    IF \A i \in 1..Len(s) : IsSpace(s[i])
    THEN <<>>
    ELSE LET first == CHOOSE i \in 1..Len(s) :
                          ~IsSpace(s[i]) /\ \A j \in 1..(i - 1) : IsSpace(s[j])
             last == CHOOSE i \in 1..Len(s) :
                          ~IsSpace(s[i]) /\ \A j \in (i + 1)..Len(s) : IsSpace(s[j])
         IN SubSeq(s, first, last)

\* sub in s
Contains(sub, s) ==
    \E i \in 0..(Len(s) - Len(sub)) : SubSeq(s, i + 1, i + Len(sub)) = sub

StartsWith(s, p) == Len(s) >= Len(p) /\ SubSeq(s, 1, Len(p)) = p

\* sep.join(xs)
RECURSIVE JoinStr(_, _)
JoinStr(sep, xs) ==
    IF xs = <<>>
    THEN <<>>
    ELSE IF Len(xs) = 1
         THEN xs[1]
         ELSE xs[1] \o sep \o JoinStr(sep, Tail(xs))

\* Python's None, where a string and where a list of strings is expected
NoneStr == <<"None">>
NoneList == <<NoneStr>>

\* str(xs) of a list of strings without quotes or backslashes, or of None
PyStr(xs) ==
    IF xs = NoneList
    THEN <<"N", "o", "n", "e">>
    ELSE <<"[">>
         \o JoinStr(<<",", " ">>, [i \in 1..Len(xs) |-> <<"'">> \o xs[i] \o <<"'">>])
         \o <<"]">>

\* d.get(key, default)
Get(d, key, default) == IF key \in DOMAIN d THEN d[key] ELSE default

\* x in xs, for a list xs
InList(x, xs) == \E i \in 1..Len(xs) : xs[i] = x

-----------------------------------------------------------------------------
(* Texts *)

T_Empty == <<>>
T_Sapa == <<"S", "a", "p", "a">>
T_sapa == <<"s", "a", "p", "a">>
T_Hue == <<"H", "u", "e">>
T_Romantic == <<"R", "o", "m", "a", "n", "t", "i", "c">>
T_Quit == <<"Q", "u", "i", "t">>

Texts == {T_Empty, T_Sapa, T_sapa, T_Hue, T_Romantic, T_Quit}

\* hashlib.md5(text.encode()).hexdigest(), tabulated for the texts of the model
MD5(text) ==
    CASE text = T_Empty -> "d41d8cd98f00b204e9800998ecf8427e"
      [] text = T_Sapa -> "c4eb624c236b3eebf45f0e35fc25a425"
      [] text = T_sapa -> "8632a3ef0e07e2a6d9e9b8e232238232"
      [] text = T_Hue -> "fb5d805f5b3b22e4fd4a1bc66875dbe3"
      [] text = T_Romantic -> "6584107d0031ab3005f450f383b9f30d"
      [] text = T_Quit -> "0d82790b0612935992bd564a17ce37d6"

-----------------------------------------------------------------------------
(* Embedding cache + client *)

\* client.embeddings.create(model=EMBED_MODEL, input=[text]).data[0].embedding
\* when the request succeeds: a fixed non-zero vector per text
ServiceEmbedding(text) ==
    [k \in 1..VectorDim |-> 10 * Len(text) + (IF text = T_sapa THEN 5 ELSE 0) + k]

\* [0.0] * config.PINECONE_VECTOR_DIM
ZeroVector == [k \in 1..VectorDim |-> 0]

\* cache with cache[key] = v
Store(cache, key, v) ==
    [k \in (DOMAIN cache) \cup {key} |-> IF k = key THEN v ELSE cache[k]]

embed_text_nocache(cache, text, ok) ==
    LET cache_key == MD5(text)
    IN IF ok
       THEN [ret |-> ServiceEmbedding(text), cache |-> cache, outcome |-> "ok"]
       ELSE [ret |-> ZeroVector, cache |-> cache, outcome |-> "fail"]

embed_text_cachefail(cache, text, ok) ==
    LET cache_key == MD5(text)
    IN IF cache_key \in DOMAIN cache
       THEN [ret |-> cache[cache_key], cache |-> cache, outcome |-> "hit"]
       ELSE IF ok
            THEN [ret |-> ServiceEmbedding(text),
                  cache |-> Store(cache, cache_key, ServiceEmbedding(text)),
                  outcome |-> "ok"]
            ELSE [ret |-> ZeroVector,
                  cache |-> Store(cache, cache_key, ZeroVector),
                  outcome |-> "fail"]

\* embed_text(text), run without interruption.  ok: whether the request to
\* the embedding service succeeds, should one be made.  outcome is "hit" when
\* no request is made, else the request's outcome.
embed_text(cache, text, ok) ==
    LET cache_key == MD5(text)
    IN IF cache_key \in DOMAIN cache
       THEN [ret |-> cache[cache_key], cache |-> cache, outcome |-> "hit"]
       ELSE IF ok
            THEN [ret |-> ServiceEmbedding(text),
                  cache |-> Store(cache, cache_key, ServiceEmbedding(text)),
                  outcome |-> "ok"]
            ELSE [ret |-> ZeroVector, cache |-> cache, outcome |-> "fail"]

NoCalls == [embed |-> [t \in Texts |-> 0], index |-> 0, graph |-> 0, chat |-> 0]

EmptyCache == [k \in {} |-> ZeroVector]

\* one more request to the embedding service for text, when r made one
CountEmbed(c, text, r) ==
    IF r.outcome = "hit"
    THEN c
    ELSE [c EXCEPT !.embed[text] = @ + 1]

-----------------------------------------------------------------------------
(* Theme classifier & filter *)

K_romantic == <<"r", "o", "m", "a", "n", "t", "i", "c">>
K_adventure == <<"a", "d", "v", "e", "n", "t", "u", "r", "e">>
K_cultural == <<"c", "u", "l", "t", "u", "r", "a", "l">>
K_family == <<"f", "a", "m", "i", "l", "y">>

\* theme_keywords.get(key, [])
theme_keywords(key) ==
    CASE key = K_romantic ->
          <<<<"r", "o", "m", "a", "n", "t", "i", "c">>,
            <<"c", "o", "u", "p", "l", "e">>,
            <<"s", "u", "n", "s", "e", "t">>,
            <<"b", "e", "a", "c", "h">>,
            <<"s", "p", "a">>,
            <<"d", "i", "n", "n", "e", "r">>,
            <<"c", "r", "u", "i", "s", "e">>>>
      [] key = K_adventure ->
          <<<<"h", "i", "k", "i", "n", "g">>,
            <<"t", "r", "e", "k", "k", "i", "n", "g">>,
            <<"m", "o", "u", "n", "t", "a", "i", "n">>,
            <<"a", "d", "v", "e", "n", "t", "u", "r", "e">>,
            <<"r", "a", "f", "t", "i", "n", "g">>,
            <<"c", "y", "c", "l", "i", "n", "g">>>>
      [] key = K_cultural ->
          <<<<"t", "e", "m", "p", "l", "e">>,
            <<"m", "u", "s", "e", "u", "m">>,
            <<"h", "i", "s", "t", "o", "r", "i", "c", "a", "l">>,
            <<"c", "u", "l", "t", "u", "r", "e">>,
            <<"h", "e", "r", "i", "t", "a", "g", "e">>,
            <<"t", "r", "a", "d", "i", "t", "i", "o", "n", "a", "l">>>>
      [] key = K_family ->
          <<<<"f", "a", "m", "i", "l", "y">>,
            <<"k", "i", "d", "s">>,
            <<"z", "o", "o">>,
            <<"p", "a", "r", "k">>,
            <<"e", "n", "t", "e", "r", "t", "a", "i", "n", "m", "e", "n", "t">>>>
      [] OTHER -> <<>>

\* any(kw in str(tags).lower() or kw in desc or kw in name for kw in keywords)
FactMatches(fact, keywords) ==
    LET tags == Get(fact, "target_tags", <<>>)
        desc == Lower(Get(fact, "target_desc", <<>>))
        name == Lower(Get(fact, "target_name", <<>>))
    IN \E i \in 1..Len(keywords) :
          \/ Contains(keywords[i], Lower(PyStr(tags)))
          \/ Contains(keywords[i], desc)
          \/ Contains(keywords[i], name)

filter_by_theme_nofallback(facts, theme) ==
    LET keywords == theme_keywords(Lower(theme))
        filtered == SelectSeq(facts, LAMBDA fact : FactMatches(fact, keywords))
    IN IF keywords = <<>> THEN facts ELSE filtered

filter_by_theme(facts, theme) ==
    LET keywords == theme_keywords(Lower(theme))
        filtered == SelectSeq(facts, LAMBDA fact : FactMatches(fact, keywords))
    IN IF keywords = <<>>
       THEN facts
       ELSE IF filtered # <<>> THEN filtered ELSE Take(facts, 10)

-----------------------------------------------------------------------------
(* Prompt assembler.  A rendered line is the sequence of the pieces its    *)
(* f-string concatenates; a block of lines joined by chr(10) is the        *)
(* sequence of its lines.                                                  *)

EmptyDict == [k \in {} |-> 0]

\* f"{score:.3f}" of a score given in thousandths: units and three decimals
Format3(score) == <<score \div 1000, score % 1000>>

\* the snippet build_prompt renders for one vector match
MatchLine(m) ==
    LET meta == Get(m, "metadata", EmptyDict)
        score == Get(m, "score", 0)
        tags == Get(meta, "tags", NoneList)
    IN <<"- [", m.id, "] ", Get(meta, "name", "N/A"), " (", Get(meta, "type", "N/A"),
         ") in ", Get(meta, "city", "N/A"), " - Score: ", Format3(score)>>
       \o (IF tags # NoneList /\ tags # <<>>
           THEN <<" | Tags: ", JoinStr(<<",", " ">>, Take(tags, 3))>>
           ELSE <<>>)

\* the relation line build_prompt renders for one graph fact
FactLine(f) ==
    LET tags == Get(f, "target_tags", NoneList)
    IN <<"- [", f.source, "] --", f.rel, "--> [", f.target_id, "] ", f.target_name,
         " (", f.target_type, "): ", Take(f.target_desc, 200)>>
       \o (IF tags # NoneList /\ tags # <<>>
           THEN <<" | Tags: ", JoinStr(<<",", " ">>, Take(tags, 3))>>
           ELSE <<>>)

\* the theme build_prompt extracts from the query (empty when none)
DetectTheme(user_query) ==
    IF Contains(K_romantic, Lower(user_query)) THEN K_romantic
    ELSE IF Contains(K_adventure, Lower(user_query)) THEN K_adventure
    ELSE IF Contains(K_cultural, Lower(user_query)) THEN K_cultural
    ELSE IF Contains(K_family, Lower(user_query)) THEN K_family
    ELSE <<>>

\* city_context, as its lines
CityContext(city_connections) ==
    IF city_connections # <<>>
    THEN <<"City Connections (for multi-day planning):">>
         \o [i \in 1..Len(city_connections) |->
                <<"- ", city_connections[i].from_city, " -> ",
                  city_connections[i].to_city_name>>]
    ELSE <<>>

build_prompt_cut12(user_query, pinecone_matches, graph_facts, city_connections) ==
    LET theme == DetectTheme(user_query)
        facts == IF theme # <<>> /\ graph_facts # <<>>
                 THEN filter_by_theme(graph_facts, theme)
                 ELSE graph_facts
        vec_context == [i \in 1..Len(Take(pinecone_matches, 12)) |->
                           MatchLine(pinecone_matches[i])]
        graph_context == [i \in 1..Len(Take(facts, 20)) |-> FactLine(facts[i])]
    IN <<[role |-> "system", content |-> "system"],
         [role |-> "user",
          content |-> [query |-> user_query,
                       semantic |-> Take(vec_context, 10),
                       graph |-> Take(graph_context, 20),
                       city |-> CityContext(city_connections)]]>>

\* build_prompt: the two messages; the user message is given by the parts
\* that its fixed headers separate
build_prompt(user_query, pinecone_matches, graph_facts, city_connections) ==
    LET theme == DetectTheme(user_query)
        facts == IF theme # <<>> /\ graph_facts # <<>>
                 THEN filter_by_theme(graph_facts, theme)
                 ELSE graph_facts
        vec_context == [i \in 1..Len(Take(pinecone_matches, 8)) |->
                           MatchLine(pinecone_matches[i])]
        graph_context == [i \in 1..Len(Take(facts, 20)) |-> FactLine(facts[i])]
    IN <<[role |-> "system", content |-> "system"],
         [role |-> "user",
          content |-> [query |-> user_query,
                       semantic |-> Take(vec_context, 10),
                       graph |-> Take(graph_context, 20),
                       city |-> CityContext(city_connections)]]>>

-----------------------------------------------------------------------------
(* Completion client *)

S_ErrorCallingOpenAI ==
    <<"E", "r", "r", "o", "r", " ", "c", "a", "l", "l", "i", "n", "g",
      " ", "O", "p", "e", "n", "A", "I", ":", " ">>

call_chat_raises(prompt_messages, ok, reply, e) ==
    IF ok
    THEN [raised |-> FALSE, value |-> reply]
    ELSE [raised |-> TRUE, value |-> e]

\* call_chat: ok says whether the completion request succeeds, reply is the
\* text it then returns, e the message of the exception it raises otherwise
call_chat(prompt_messages, ok, reply, e) ==
    IF ok
    THEN [raised |-> FALSE, value |-> reply]
    ELSE [raised |-> FALSE, value |-> S_ErrorCallingOpenAI \o e]

-----------------------------------------------------------------------------
(* Vector retriever *)

TOP_K == 5

M_hanoi ==
    [id |-> "city_hanoi", score |-> 912,
     metadata |-> [name |-> "Hanoi", type |-> "City", city |-> "Hanoi",
                   tags |-> <<<<"c", "a", "p", "i", "t", "a", "l">>>>]]
M_attr ==
    [id |-> "attr_1", score |-> 850,
     metadata |-> [name |-> "Sunset Cruise", type |-> "Attraction", city |-> "Hanoi"]]
M_hotel ==
    [id |-> "hotel_9", score |-> 640, metadata |-> [name |-> "Lake Hotel"]]

\* what the vector index may answer to a query that succeeds
IndexAnswers == {<<>>, <<M_hanoi>>, <<M_attr, M_hotel>>, <<M_hotel, M_hanoi, M_attr>>}

IndexFailed == [ok |-> FALSE, matches |-> <<>>]

IndexOutcomes == {IndexFailed} \cup {[ok |-> TRUE, matches |-> m] : m \in IndexAnswers}

\* pinecone_query(query_text, top_k): embed_ok and index are the outcomes of
\* the embedding request and of index.query
pinecone_query(cache, query_text, top_k, embed_ok, index) ==
    LET e == embed_text(cache, query_text, embed_ok)
    IN [matches |-> IF index.ok THEN Take(index.matches, top_k) ELSE <<>>,
        cache |-> e.cache, embed |-> e.outcome]

-----------------------------------------------------------------------------
(* Graph expander *)

\* the rows the graph database holds for q1 with $nid = nid (at most 10)
GraphRecs(nid) ==
    CASE nid = "city_hanoi" ->
           <<[rel |-> "Connected_To", labels |-> <<"Entity", "City">>,
              id |-> "city_hue", name |-> <<"H", "u", "e">>, type |-> "City",
              description |-> <<"O", "l", "d", " ", "T", "e", "m", "p", "l", "e">>,
              tags |-> <<<<"H", "e", "r", "i", "t", "a", "g", "e">>>>],
             [rel |-> "Located_In", labels |-> <<"Entity", "Attraction">>,
              id |-> "attr_1", name |-> <<"B", "a", "y", " ", "C", "r", "u", "i", "s", "e">>,
              type |-> "Attraction", description |-> NoneStr,
              tags |-> <<<<"S", "u", "n", "s", "e", "t">>>>]>>
      [] nid = "attr_1" ->
           <<[rel |-> "Located_In", labels |-> <<"Entity", "City">>,
              id |-> "city_hanoi", name |-> <<"H", "a", "n", "o", "i">>,
              type |-> "City", description |-> <<>>, tags |-> NoneList]>>
      [] nid = "hotel_9" ->
           <<[rel |-> "Near", labels |-> <<"Entity", "Attraction">>,
              id |-> "attr_1", name |-> <<"B", "a", "y", " ", "C", "r", "u", "i", "s", "e">>,
              type |-> "Attraction", description |-> NoneStr,
              tags |-> <<<<"S", "u", "n", "s", "e", "t">>>>]>>
      [] OTHER -> <<>>

\* the Connected_To edges between City nodes
CityEdges ==
    <<[from_city |-> "city_hanoi", to_city |-> "city_hue", to_city_name |-> "Hue"],
      [from_city |-> "city_hanoi", to_city |-> "city_sapa", to_city_name |-> "Sapa"]>>

\* the rows the graph database holds for q2 with $city_ids = city_ids (at most 5)
CityRecs(city_ids) ==
    Take(SelectSeq(CityEdges, LAMBDA rec : InList(rec.from_city, city_ids)), 5)

\* the fact appended for row r of the query on nid
FactFrom(nid, r) ==
    [source |-> nid, rel |-> r.rel, target_id |-> r.id, target_name |-> r.name,
     target_type |-> r.type,
     target_desc |-> Take(IF r.description \in {NoneStr, <<>>} THEN <<>>
                          ELSE r.description, 400),
     target_tags |-> Get(r, "tags", <<>>),
     labels |-> r.labels]

\* [f["source"] for f in facts if "City" in f.get("labels", [])]
CityIds(facts) ==
    LET city == SelectSeq(facts, LAMBDA f : InList("City", Get(f, "labels", <<>>)))
    IN [k \in 1..Len(city) |-> city[k].source]

IdleGraph ==
    [pc |-> "idle", node_ids |-> <<>>, i |-> 1, recs |-> <<>>, facts |-> <<>>,
     city_connections |-> <<>>, queries |-> <<>>, failed |-> {}, q2 |-> "none"]

\* fetch_graph_context(node_ids) entered: facts = [], city_connections = []
GraphEntered(node_ids) == [IdleGraph EXCEPT !.pc = "session", !.node_ids = node_ids]

\* with driver.session() as session: raised when the session cannot be had
GraphSession ==
    /\ g.pc = "session"
    /\ \E ok \in BOOLEAN :
          g' = [g EXCEPT !.pc = IF ok THEN "loop" ELSE "raised"]
    /\ UNCHANGED <<EMBEDDING_CACHE, calls, hist, wk, a, fl, pr>>

\* recs = session.run(q1, nid=nid) for the next nid, or its except branch
GraphRun ==
    /\ g.pc = "loop"
    /\ g.i <= Len(g.node_ids)
    /\ calls' = [calls EXCEPT !.graph = @ + 1]
    /\ \E ok \in BOOLEAN :
          IF ok
          THEN g' = [g EXCEPT !.pc = "recs", !.recs = GraphRecs(g.node_ids[g.i]),
                              !.queries = Append(@, <<"q1", g.node_ids[g.i]>>)]
          ELSE g' = [g EXCEPT !.i = @ + 1, !.failed = @ \cup {g.node_ids[g.i]},
                              !.queries = Append(@, <<"q1", g.node_ids[g.i]>>)]
    /\ UNCHANGED <<EMBEDDING_CACHE, hist, wk, a, fl, pr>>

\* for r in recs: one more row fetched and appended, the rows exhausted, or
\* the fetch raising into the except branch
GraphNextRecord ==
    /\ g.pc = "recs"
    /\ \E ok \in BOOLEAN :
          IF ~ok
          THEN g' = [g EXCEPT !.pc = "loop", !.i = @ + 1, !.recs = <<>>,
                              !.failed = @ \cup {g.node_ids[g.i]}]
          ELSE IF g.recs # <<>>
               THEN g' = [g EXCEPT !.facts = Append(@, FactFrom(g.node_ids[g.i],
                                                                g.recs[1])),
                                   !.recs = Tail(@)]
               ELSE g' = [g EXCEPT !.pc = "loop", !.i = @ + 1]
    /\ UNCHANGED <<EMBEDDING_CACHE, calls, hist, wk, a, fl, pr>>

GraphCity_always ==
    /\ g.pc = "loop"
    /\ g.i > Len(g.node_ids)
    /\ LET city_ids == CityIds(g.facts)
       IN /\ calls' = [calls EXCEPT !.graph = @ + 1]
          /\ \E outcome \in {"ok", "run_fails", "rows_fail"} :
                g' = [g EXCEPT !.pc = "done",
                               !.queries = Append(@, <<"q2", city_ids>>),
                               !.q2 = IF outcome = "ok" THEN "ok" ELSE "failed",
                               !.city_connections =
                                   IF outcome = "ok" THEN CityRecs(city_ids) ELSE @]
    /\ UNCHANGED <<EMBEDDING_CACHE, hist, wk, a, fl, pr>>

\* after the loop: city_ids, and when it is not empty the query q2, whose
\* session.run or whose rows may raise into the except branch; then the
\* return of (facts, city_connections)
GraphCity ==
    /\ g.pc = "loop"
    /\ g.i > Len(g.node_ids)
    /\ LET city_ids == CityIds(g.facts)
       IN IF city_ids # <<>>
          THEN /\ calls' = [calls EXCEPT !.graph = @ + 1]
               /\ \E outcome \in {"ok", "run_fails", "rows_fail"} :
                     g' = [g EXCEPT !.pc = "done",
                                    !.queries = Append(@, <<"q2", city_ids>>),
                                    !.q2 = IF outcome = "ok" THEN "ok" ELSE "failed",
                                    !.city_connections =
                                        IF outcome = "ok" THEN CityRecs(city_ids) ELSE @]
          ELSE /\ g' = [g EXCEPT !.pc = "done"]
               /\ UNCHANGED calls
    /\ UNCHANGED <<EMBEDDING_CACHE, hist, wk, a, fl, pr>>

-----------------------------------------------------------------------------
(* Idle values of the parts a specification does not exercise *)

Workers == 1..NumWorkers

IdleWorker == [pc |-> "idle"]
IdleWorkers == [w \in Workers |-> IdleWorker]
IdleFilter == [pc |-> "idle"]
IdlePrompt == [pc |-> "idle"]

-----------------------------------------------------------------------------
(* Spec: one process serving queries one at a time over its process-wide   *)
(* EMBEDDING_CACHE, either the /ask endpoint of app.py ("web") or the      *)
(* interactive_chat loop of hybrid_chat.py ("cli")                         *)

Surfaces == {"web", "cli"}

S_EmptyQuery == <<"E", "m", "p", "t", "y", " ", "q", "u", "e", "r", "y">>

\* the "query" values of the request bodies
RawQueries ==
    {<<>>, <<" ", "\t">>, T_Sapa, <<" ">> \o T_Sapa \o <<"\n">>, T_Romantic, T_Quit}

\* the text of a completion, and the message of a failed request
ChatReply == <<"D", "a", "y", " ", "1">>
ErrorMessage == <<"t", "i", "m", "e", "o", "u", "t">>

NoResponse == [status |-> 0, body |-> EmptyDict]

IdleAsk ==
    [pc |-> "idle", surface |-> "web", raw |-> <<>>, query |-> <<>>, cache0 |-> EmptyCache,
     matches |-> <<>>, embed |-> "none", index |-> "none", chat |-> "none",
     response |-> NoResponse]

Init ==
    /\ EMBEDDING_CACHE = EmptyCache
    /\ calls = NoCalls
    /\ hist = <<>>
    /\ wk = IdleWorkers
    /\ g = IdleGraph
    /\ \E surface \in Surfaces : a = [IdleAsk EXCEPT !.surface = surface]
    /\ fl = IdleFilter
    /\ pr = IdlePrompt

\* a POST /ask arrives (data = request.get_json()), or a line is read by
\* input()
AskReceive ==
    /\ a.pc = "idle"
    /\ \E raw \in RawQueries :
          a' = [a EXCEPT !.pc = "validate", !.raw = raw,
                         !.cache0 = EMBEDDING_CACHE]
    /\ calls' = NoCalls
    /\ g' = IdleGraph
    /\ UNCHANGED <<EMBEDDING_CACHE, hist, wk, fl, pr>>

ExitWords == {<<"e", "x", "i", "t">>, <<"q", "u", "i", "t">>}

Goodbye == [status |-> 0, body |-> [exit |-> "goodbye"]]

AskValidate_nostrip ==
    /\ a.pc = "validate"
    /\ LET query == Strip(a.raw)
       IN IF a.surface = "web"
          THEN IF a.raw = <<>>
               THEN a' = [a EXCEPT !.pc = "responded", !.query = query,
                                   !.response = [status |-> 400,
                                                 body |-> [error |-> S_EmptyQuery]]]
               ELSE a' = [a EXCEPT !.pc = "pinecone", !.query = query]
          ELSE IF a.raw = <<>> \/ Lower(query) \in ExitWords
               THEN a' = [a EXCEPT !.pc = "exited", !.query = query,
                                   !.response = Goodbye]
               ELSE a' = [a EXCEPT !.pc = "pinecone", !.query = query]
    /\ UNCHANGED <<EMBEDDING_CACHE, calls, hist, wk, g, fl, pr>>

\* web: query = data.get("query", "").strip(); if not query: 400
\* cli: query = input(...).strip(); if not query or an exit word: break
AskValidate ==
    /\ a.pc = "validate"
    /\ LET query == Strip(a.raw)
       IN IF a.surface = "web"
          THEN IF query = <<>>
               THEN a' = [a EXCEPT !.pc = "responded", !.query = query,
                                   !.response = [status |-> 400,
                                                 body |-> [error |-> S_EmptyQuery]]]
               ELSE a' = [a EXCEPT !.pc = "pinecone", !.query = query]
          ELSE IF query = <<>> \/ Lower(query) \in ExitWords
               THEN a' = [a EXCEPT !.pc = "exited", !.query = query,
                                   !.response = Goodbye]
               ELSE a' = [a EXCEPT !.pc = "pinecone", !.query = query]
    /\ UNCHANGED <<EMBEDDING_CACHE, calls, hist, wk, g, fl, pr>>

\* matches = hybrid_chat.pinecone_query(query); match_ids; and the entry
\* into fetch_graph_context(match_ids)
AskPineconeQuery ==
    /\ a.pc = "pinecone"
    /\ \E embed_ok \in BOOLEAN, index \in IndexOutcomes :
          LET r == pinecone_query(EMBEDDING_CACHE, a.query, TOP_K, embed_ok, index)
              match_ids == [k \in 1..Len(r.matches) |-> r.matches[k].id]
          IN /\ (r.embed = "hit" => embed_ok)
             /\ EMBEDDING_CACHE' = r.cache
             /\ calls' = [calls EXCEPT
                            !.embed[a.query] = IF r.embed = "hit" THEN @ ELSE @ + 1,
                            !.index = @ + 1]
             /\ a' = [a EXCEPT !.pc = "graph", !.matches = r.matches,
                               !.embed = r.embed,
                               !.index = IF index.ok THEN "ok" ELSE "failed"]
             /\ g' = GraphEntered(match_ids)
    /\ UNCHANGED <<hist, wk, fl, pr>>

\* fetch_graph_context raised: the except branch of ask answers 500;
\* interactive_chat has no handler and the exception ends the process
AskError ==
    /\ a.pc = "graph"
    /\ g.pc = "raised"
    /\ a' = [a EXCEPT !.pc = IF a.surface = "web" THEN "responded" ELSE "crashed",
                      !.response = [status |-> 500, body |-> [error |-> ErrorMessage]]]
    /\ UNCHANGED <<EMBEDDING_CACHE, calls, hist, wk, g, fl, pr>>

\* fetch_graph_context returned: build_prompt, call_chat and the response
AskChat ==
    /\ a.pc = "graph"
    /\ g.pc = "done"
    /\ calls' = [calls EXCEPT !.chat = @ + 1]
    /\ \E ok \in BOOLEAN :
          LET prompt == build_prompt(a.query, a.matches, g.facts, g.city_connections)
              answer == call_chat(prompt, ok, ChatReply, ErrorMessage)
          IN a' = [a EXCEPT !.pc = IF answer.raised /\ a.surface = "cli"
                                  THEN "crashed" ELSE "responded",
                            !.chat = IF ok THEN "ok" ELSE "failed",
                            !.response =
                                IF answer.raised
                                THEN [status |-> 500, body |-> [error |-> answer.value]]
                                ELSE [status |-> IF a.surface = "web" THEN 200 ELSE 0,
                                      body |-> [answer |-> answer.value]]]
    /\ UNCHANGED <<EMBEDDING_CACHE, hist, wk, g, fl, pr>>

\* the response is sent; the worker waits for the next request
AskNext ==
    /\ a.pc = "responded"
    /\ a' = [IdleAsk EXCEPT !.surface = a.surface]
    /\ g' = IdleGraph
    /\ calls' = NoCalls
    /\ UNCHANGED <<EMBEDDING_CACHE, hist, wk, fl, pr>>

Next ==
    \/ AskReceive
    \/ AskValidate
    \/ AskPineconeQuery
    \/ GraphSession
    \/ GraphRun
    \/ GraphNextRecord
    \/ GraphCity
    \/ AskError
    \/ AskChat
    \/ AskNext

Spec == Init /\ [][Next]_vars

-----------------------------------------------------------------------------
(* SpecEmbed: embed_text called MaxCalls times, one call after the other *)

InitEmbed ==
    /\ EMBEDDING_CACHE = EmptyCache
    /\ calls = NoCalls
    /\ hist = <<>>
    /\ wk = IdleWorkers
    /\ g = IdleGraph
    /\ a = IdleAsk
    /\ fl = IdleFilter
    /\ pr = IdlePrompt

EmbedCall ==
    /\ Len(hist) < MaxCalls
    /\ \E text \in Texts, ok \in BOOLEAN :
          LET r == embed_text(EMBEDDING_CACHE, text, ok)
          IN /\ (r.outcome = "hit" => ok)
             /\ EMBEDDING_CACHE' = r.cache
             /\ calls' = CountEmbed(calls, text, r)
             /\ hist' = Append(hist, [text |-> text, ret |-> r.ret,
                                      outcome |-> r.outcome,
                                      before |-> EMBEDDING_CACHE,
                                      after |-> r.cache])
    /\ UNCHANGED <<wk, g, a, fl, pr>>

NextEmbed == EmbedCall

SpecEmbed == InitEmbed /\ [][NextEmbed]_vars

-----------------------------------------------------------------------------
(* SpecRace: workers run embed_text concurrently on the shared, unlocked   *)
(* EMBEDDING_CACHE.  Each dictionary operation is atomic (one bytecode     *)
(* under the interpreter lock); a worker can be preempted between them.    *)

RaceTexts == {T_Sapa, T_Hue}

InitRace ==
    /\ EMBEDDING_CACHE = EmptyCache
    /\ calls = NoCalls
    /\ hist = <<>>
    /\ wk = IdleWorkers
    /\ g = IdleGraph
    /\ a = IdleAsk
    /\ fl = IdleFilter
    /\ pr = IdlePrompt

\* a worker enters embed_text(text) and computes cache_key
RaceBegin(w) ==
    /\ wk[w].pc = "idle"
    /\ \E text \in RaceTexts :
          wk' = [wk EXCEPT ![w] = [pc |-> "check", text |-> text,
                                   cache_key |-> MD5(text)]]
    /\ UNCHANGED <<EMBEDDING_CACHE, calls, hist, g, a, fl, pr>>

\* if cache_key in EMBEDDING_CACHE: return EMBEDDING_CACHE[cache_key]
RaceCheck(w) ==
    /\ wk[w].pc = "check"
    /\ IF wk[w].cache_key \in DOMAIN EMBEDDING_CACHE
       THEN wk' = [wk EXCEPT ![w] = [pc |-> "done", text |-> wk[w].text,
                                     outcome |-> "hit",
                                     ret |-> EMBEDDING_CACHE[wk[w].cache_key]]]
       ELSE wk' = [wk EXCEPT ![w].pc = "request"]
    /\ UNCHANGED <<EMBEDDING_CACHE, calls, hist, g, a, fl, pr>>

RaceRequest_cachefail(w) ==
    /\ wk[w].pc = "request"
    /\ calls.embed[wk[w].text] < MaxEmbedRequests
    /\ calls' = [calls EXCEPT !.embed[wk[w].text] = @ + 1]
    /\ \E ok \in BOOLEAN :
          IF ok
          THEN /\ wk' = [wk EXCEPT ![w] = [pc |-> "store", text |-> wk[w].text,
                                           cache_key |-> wk[w].cache_key,
                                           embedding |-> ServiceEmbedding(wk[w].text)]]
               /\ UNCHANGED EMBEDDING_CACHE
          ELSE /\ wk' = [wk EXCEPT ![w] = [pc |-> "done", text |-> wk[w].text,
                                           outcome |-> "fail", ret |-> ZeroVector]]
               /\ EMBEDDING_CACHE' = Store(EMBEDDING_CACHE, wk[w].cache_key, ZeroVector)
    /\ UNCHANGED <<hist, g, a, fl, pr>>

\* resp = client.embeddings.create(...); embedding = resp.data[0].embedding
\* or, when that raises, the except branch returning the zero vector
RaceRequest(w) ==
    /\ wk[w].pc = "request"
    /\ calls.embed[wk[w].text] < MaxEmbedRequests
    /\ calls' = [calls EXCEPT !.embed[wk[w].text] = @ + 1]
    /\ \E ok \in BOOLEAN :
          IF ok
          THEN wk' = [wk EXCEPT ![w] = [pc |-> "store", text |-> wk[w].text,
                                        cache_key |-> wk[w].cache_key,
                                        embedding |-> ServiceEmbedding(wk[w].text)]]
          ELSE wk' = [wk EXCEPT ![w] = [pc |-> "done", text |-> wk[w].text,
                                        outcome |-> "fail", ret |-> ZeroVector]]
    /\ UNCHANGED <<EMBEDDING_CACHE, hist, g, a, fl, pr>>

\* EMBEDDING_CACHE[cache_key] = embedding; return embedding
RaceStore(w) ==
    /\ wk[w].pc = "store"
    /\ EMBEDDING_CACHE' = Store(EMBEDDING_CACHE, wk[w].cache_key, wk[w].embedding)
    /\ wk' = [wk EXCEPT ![w] = [pc |-> "done", text |-> wk[w].text,
                                outcome |-> "ok", ret |-> wk[w].embedding]]
    /\ UNCHANGED <<calls, hist, g, a, fl, pr>>

\* the worker takes its next request
RaceNextCall(w) ==
    /\ wk[w].pc = "done"
    /\ wk' = [wk EXCEPT ![w] = IdleWorker]
    /\ UNCHANGED <<EMBEDDING_CACHE, calls, hist, g, a, fl, pr>>

NextRace ==
    \E w \in Workers :
        \/ RaceBegin(w)
        \/ RaceCheck(w)
        \/ RaceRequest(w)
        \/ RaceStore(w)
        \/ RaceNextCall(w)

SpecRace == InitRace /\ [][NextRace]_vars

-----------------------------------------------------------------------------
(* SpecFilter: filter_by_theme applied to every sequence of at most        *)
(* MaxFacts facts and every theme of FilterThemes                          *)

\* a fact with a romantic keyword in its tags (in capitals) and none elsewhere
FactSunset(i) ==
    [source |-> "city_hanoi", rel |-> "Has_Attraction", target_id |-> ToString(i),
     target_name |-> <<"B", "a", "y">>, target_type |-> "Attraction",
     target_desc |-> <<>>, target_tags |-> <<<<"S", "u", "n", "s", "e", "t">>>>,
     labels |-> <<"Entity", "Attraction">>]

\* a fact with an adventure keyword in its name (in capitals) and no tags
FactMountain(i) ==
    [source |-> "city_sapa", rel |-> "Has_Attraction", target_id |-> ToString(i),
     target_name |-> <<"M", "o", "u", "n", "t", "a", "i", "n">>,
     target_type |-> "Attraction", target_desc |-> <<"H", "i", "g", "h">>,
     target_tags |-> NoneList, labels |-> <<"Entity", "Attraction">>]

FactKinds == {"sunset", "mountain"}

FactOf(kind, i) == IF kind = "sunset" THEN FactSunset(i) ELSE FactMountain(i)

T_foodie == <<"f", "o", "o", "d", "i", "e">>
T_ROMANTIC == <<"R", "O", "M", "A", "N", "T", "I", "C">>

FilterThemes == {K_romantic, T_ROMANTIC, K_adventure, K_cultural, T_foodie, <<>>}

InitFilter ==
    /\ EMBEDDING_CACHE = EmptyCache
    /\ calls = NoCalls
    /\ hist = <<>>
    /\ wk = IdleWorkers
    /\ g = IdleGraph
    /\ a = IdleAsk
    /\ fl = [pc |-> "facts", facts |-> <<>>]
    /\ pr = IdlePrompt

\* the caller collects one more fact
FilterAppend ==
    /\ fl.pc = "facts"
    /\ Len(fl.facts) < MaxFacts
    /\ \E kind \in FactKinds :
          fl' = [fl EXCEPT !.facts = Append(@, FactOf(kind, Len(@) + 1))]
    /\ UNCHANGED <<EMBEDDING_CACHE, calls, hist, wk, g, a, pr>>

\* filter_by_theme(facts, theme)
FilterCall ==
    /\ fl.pc = "facts"
    /\ \E theme \in FilterThemes :
          fl' = [pc |-> "done", facts |-> fl.facts, theme |-> theme,
                 result |-> filter_by_theme(fl.facts, theme)]
    /\ UNCHANGED <<EMBEDDING_CACHE, calls, hist, wk, g, a, pr>>

NextFilter == FilterAppend \/ FilterCall

SpecFilter == InitFilter /\ [][NextFilter]_vars

-----------------------------------------------------------------------------
(* SpecPrompt: build_prompt applied to every sequence of at most           *)
(* MaxMatches vector matches                                               *)

\* a match whose metadata has four tags
MatchTagged(i) ==
    [id |-> ToString(i), score |-> 1000 - 7 * i,
     metadata |-> [name |-> "Hoan Kiem Lake", type |-> "Attraction",
                   city |-> "Hanoi",
                   tags |-> <<<<"l", "a", "k", "e">>, <<"w", "a", "l", "k">>,
                              <<"o", "l", "d">>, <<"c", "i", "t", "y">>>>]]

\* a match whose metadata has a name only
MatchBare(i) ==
    [id |-> ToString(i), score |-> 1000 - 7 * i, metadata |-> [name |-> "Sapa"]]

MatchKinds == {"tagged", "bare"}

MatchOf(kind, i) == IF kind = "tagged" THEN MatchTagged(i) ELSE MatchBare(i)

InitPrompt ==
    /\ EMBEDDING_CACHE = EmptyCache
    /\ calls = NoCalls
    /\ hist = <<>>
    /\ wk = IdleWorkers
    /\ g = IdleGraph
    /\ a = IdleAsk
    /\ fl = IdleFilter
    /\ pr = [pc |-> "matches", matches |-> <<>>]

\* the caller supplies one more match
PromptAppend ==
    /\ pr.pc = "matches"
    /\ Len(pr.matches) < MaxMatches
    /\ \E kind \in MatchKinds :
          pr' = [pr EXCEPT !.matches = Append(@, MatchOf(kind, Len(@) + 1))]
    /\ UNCHANGED <<EMBEDDING_CACHE, calls, hist, wk, g, a, fl>>

\* build_prompt(user_query, matches, [], [])
PromptBuild ==
    /\ pr.pc = "matches"
    /\ \E user_query \in {T_Sapa, T_Romantic} :
          pr' = [pc |-> "done", matches |-> pr.matches,
                 prompt |-> build_prompt(user_query, pr.matches, <<>>, <<>>)]
    /\ UNCHANGED <<EMBEDDING_CACHE, calls, hist, wk, g, a, fl>>

NextPrompt == PromptAppend \/ PromptBuild

SpecPrompt == InitPrompt /\ [][NextPrompt]_vars

-----------------------------------------------------------------------------
(* Properties *)

\* the positions of hist followed by a call with the same text
Repeated == {i \in 1..(Len(hist) - 1) : hist[i].text = hist[i + 1].text}

\* C1 as stated: for every text and every outcome of the embedding service,
\* the second of two consecutive calls embed_text(T) returns the vector the
\* first returned and makes no request to the service
C1_SecondCallAlwaysCached ==
    \A i \in Repeated :
        /\ hist[i + 1].ret = hist[i].ret
        /\ hist[i + 1].outcome = "hit"

\* C1 amended: when the first of two consecutive calls embed_text(T) is
\* served from the cache or its request succeeds, the second returns the same
\* vector and makes no request; when the first call's request fails, nothing
\* is cached and the second call makes a request of its own
C1_SecondCallCachedAfterSuccess ==
    \A i \in Repeated :
        /\ hist[i].outcome \in {"hit", "ok"} =>
              /\ hist[i + 1].ret = hist[i].ret
              /\ hist[i + 1].outcome = "hit"
        /\ hist[i].outcome = "fail" =>
              /\ hist[i].after = hist[i].before
              /\ hist[i + 1].outcome \in {"ok", "fail"}

C1_Witness ==
    \E i \in Repeated : hist[i].outcome = "ok" /\ hist[i + 1].outcome = "hit"

\* C5: a call whose service request fails leaves EMBEDDING_CACHE unchanged
\* and returns PINECONE_VECTOR_DIM zeros; the cache holds entries only for
\* texts whose request succeeded, and no call removes an entry or replaces
\* its vector
C5_FailureNotCached ==
    /\ \A i \in 1..Len(hist) :
          /\ hist[i].outcome = "fail" =>
                /\ hist[i].after = hist[i].before
                /\ Len(hist[i].ret) = VectorDim
                /\ \A k \in 1..VectorDim : hist[i].ret[k] = 0
          /\ \A key \in DOMAIN hist[i].before :
                /\ key \in DOMAIN hist[i].after
                /\ hist[i].after[key] = hist[i].before[key]
    /\ DOMAIN EMBEDDING_CACHE =
          {MD5(hist[i].text) : i \in {j \in 1..Len(hist) : hist[j].outcome = "ok"}}

C5_Witness ==
    \E i \in 1..Len(hist) :
        /\ hist[i].outcome = "fail"
        /\ hist[i].before # EmptyCache
        /\ EMBEDDING_CACHE = hist[i].before

\* C7: under every interleaving of the workers' steps, the cache holds for
\* a fingerprint only the vector the service returns for its text, and
\* every worker whose call is served (from the service or the cache) returns
\* that vector
C7_RaceIdempotent ==
    /\ \A key \in DOMAIN EMBEDDING_CACHE :
          \E text \in RaceTexts :
              MD5(text) = key /\ EMBEDDING_CACHE[key] = ServiceEmbedding(text)
    /\ \A w \in Workers :
          (wk[w].pc = "done" /\ wk[w].outcome \in {"ok", "hit"}) =>
              wk[w].ret = ServiceEmbedding(wk[w].text)

\* two workers requested the same text from the service and both stored it
C7_Witness ==
    \E w1, w2 \in Workers :
        /\ w1 # w2
        /\ wk[w1].pc = "done" /\ wk[w2].pc = "done"
        /\ wk[w1].outcome = "ok" /\ wk[w2].outcome = "ok"
        /\ wk[w1].text = wk[w2].text
        /\ calls.embed[wk[w1].text] >= 2

\* the facts matching a keyword of theme, in their order
MatchingFacts(facts, theme) ==
    SelectSeq(facts, LAMBDA fact : FactMatches(fact, theme_keywords(Lower(theme))))

\* C8 as stated: for every non-empty facts and every theme, filter_by_theme
\* returns a non-empty sequence: the matching facts in their order or, when
\* none matches, the first 10 facts
C8_NonEmptyMatchingOrFirstTen ==
    (fl.pc = "done" /\ fl.facts # <<>>) =>
        /\ fl.result # <<>>
        /\ fl.result = IF MatchingFacts(fl.facts, fl.theme) # <<>>
                       THEN MatchingFacts(fl.facts, fl.theme)
                       ELSE Take(fl.facts, 10)

\* C8 amended: for every non-empty facts and every theme, filter_by_theme
\* returns a non-empty sequence: for a theme that is none of the four mapped
\* themes, facts unchanged; otherwise the matching facts in their order or,
\* when none matches, the first 10 facts
C8_NonEmptyFiltered ==
    (fl.pc = "done" /\ fl.facts # <<>>) =>
        /\ fl.result # <<>>
        /\ IF Lower(fl.theme) \notin {K_romantic, K_adventure, K_cultural, K_family}
           THEN fl.result = fl.facts
           ELSE IF \E i \in 1..Len(fl.facts) :
                      FactMatches(fl.facts[i], theme_keywords(Lower(fl.theme)))
                THEN fl.result = MatchingFacts(fl.facts, fl.theme)
                ELSE /\ Len(fl.result) = Min(10, Len(fl.facts))
                     /\ \A i \in 1..Len(fl.result) : fl.result[i] = fl.facts[i]

\* more than 10 facts, none matching the mapped theme: the first 10 come back
C8_Witness ==
    /\ fl.pc = "done"
    /\ Len(fl.facts) > 10
    /\ fl.theme = K_cultural
    /\ Len(fl.result) = 10

\* C9: for matches of length n, the semantic-match section of the user
\* message has at most 10 lines, the rendered lines of the first min(n, 8)
\* matches in input order
C9_SemanticSection ==
    pr.pc = "done" =>
        LET semantic == pr.prompt[2].content.semantic
        IN /\ Len(semantic) <= 10
           /\ Len(semantic) = Min(Len(pr.matches), 8)
           /\ \A i \in 1..Len(semantic) :
                 /\ semantic[i] = MatchLine(pr.matches[i])
                 /\ semantic[i][2] = pr.matches[i].id

C9_Witness ==
    /\ pr.pc = "done"
    /\ Len(pr.matches) = 12
    /\ Len(pr.prompt[2].content.semantic) = 8

\* C2 as stated: fetch_graph_context never raises, and the facts it returns
\* have as source only ids whose query did not fail, in the order of node_ids
C2_NeverRaisesOnlySucceeded ==
    /\ g.pc # "raised"
    /\ g.pc = "done" =>
          /\ \A k \in 1..Len(g.facts) : g.facts[k].source \notin g.failed
          /\ \E pos \in [1..Len(g.facts) -> 1..Len(g.node_ids)] :
                /\ \A k \in 1..Len(g.facts) : g.node_ids[pos[k]] = g.facts[k].source
                /\ \A k \in 1..(Len(g.facts) - 1) : pos[k] <= pos[k + 1]

\* C3 as stated: a non-empty query given to ask() ends with an answer,
\* after all four stages, whatever fails
C3_AlwaysAnswers ==
    (a.surface = "web" /\ a.pc = "responded" /\ a.query # <<>>) =>
        /\ a.response.status = 200
        /\ DOMAIN a.response.body = {"answer"}
        /\ calls.index = 1
        /\ g.pc = "done"
        /\ calls.chat = 1

\* C4: an empty or whitespace-only query is rejected before the pipeline
\* starts: no embedding, index, graph or completion request is made, the
\* cache is as it was, and the web endpoint answers 400 "Empty query"
C4_EmptyQueryRejected ==
    (a.pc # "idle" /\ Strip(a.raw) = <<>>) =>
        /\ a.pc \in {"validate", "responded", "exited"}
        /\ calls = NoCalls
        /\ g = IdleGraph
        /\ EMBEDDING_CACHE = a.cache0
        /\ (a.surface = "web" /\ a.pc = "responded") =>
              /\ a.response.status = 400
              /\ a.response.body = [error |-> S_EmptyQuery]

\* a whitespace-only query was answered while the cache held an entry
C4_Witness ==
    /\ a.surface = "web"
    /\ a.pc = "responded"
    /\ a.raw = <<" ", "\t">>
    /\ a.response.status = 400
    /\ EMBEDDING_CACHE # EmptyCache

\* C6: when the completion request fails, the response carries in its
\* answer field a string that begins with "Error calling", and the web
\* endpoint answers it with status 200, not 500
C6_ChatFailureIsAnAnswer ==
    (a.pc \in {"responded", "crashed"} /\ a.chat = "failed") =>
        /\ a.pc = "responded"
        /\ DOMAIN a.response.body = {"answer"}
        /\ StartsWith(a.response.body.answer,
                      <<"E", "r", "r", "o", "r", " ", "c", "a", "l", "l", "i", "n", "g">>)
        /\ a.surface = "web" => a.response.status = 200

C6_Witness ==
    /\ a.surface = "web"
    /\ a.pc = "responded"
    /\ a.chat = "failed"
    /\ a.response.status = 200

\* the positions of the city-connectivity query among the queries issued
CityQueries == {k \in 1..Len(g.queries) : g.queries[k][1] = "q2"}

\* a city query is the last query, follows one query per id, and carries
\* the sources of the facts that have the "City" label; none is issued
\* when no fact has it
C10_CityQueryState ==
    /\ Cardinality(CityQueries) <= 1
    /\ \A k \in CityQueries :
          /\ k = Len(g.queries)
          /\ k = Len(g.node_ids) + 1
          /\ \A j \in 1..Len(g.node_ids) : g.queries[j] = <<"q1", g.node_ids[j]>>
          /\ g.pc = "done"
          /\ \E f \in 1..Len(g.facts) : InList("City", g.facts[f].labels)
          /\ g.queries[k][2] # <<>>
          /\ g.queries[k][2] =
                LET city == {f \in 1..Len(g.facts) : InList("City", g.facts[f].labels)}
                    nth(n) == CHOOSE f \in city : Cardinality({e \in city : e < f}) = n - 1
                IN [n \in 1..Cardinality(city) |-> g.facts[nth(n)].source]
    /\ (CityQueries = {} /\ g.pc = "done") =>
          /\ g.q2 = "none"
          /\ \A f \in 1..Len(g.facts) : ~InList("City", g.facts[f].labels)
    /\ g.q2 = "failed" => (g.pc = "done" /\ g.city_connections = <<>>)

\* the step that issues the city query returns every fact collected
C10_CityQueryStep ==
    (g.pc = "loop" /\ g'.pc = "done") =>
        /\ g'.facts = g.facts
        /\ g'.node_ids = g.node_ids
        /\ (g'.q2 = "failed" => g'.city_connections = <<>>)

\* C10: the city-connectivity query is issued at most once, after every
\* per-entity query, only when a collected fact has the "City" label among
\* its target labels, with the sources of those facts as parameter; when
\* it fails the call returns all collected facts and no connection
C10_CityQuery == []C10_CityQueryState /\ [][C10_CityQueryStep]_vars

\* the city query failed and the call returned the facts it had collected
C10_Witness ==
    /\ g.pc = "done"
    /\ g.q2 = "failed"
    /\ Len(g.facts) >= 2
    /\ g.city_connections = <<>>

====
